---- MODULE Spec2Model ----
(***************************************************************************)
(* Model of gutenberg_demo_V16.py: the text-analysis pipeline              *)
(* (remove_html_tags, get_top_ten_words), the SQLite-backed BookManager    *)
(* and the BookSearchApp handlers that drive them.                         *)
(*                                                                         *)
(* A text is a sequence of characters, each character a one-element        *)
(* string; a character outside ASCII is written as its code point          *)
(* ("\\u00C9").  A word is the sequence of a token's characters, and       *)
(* Str(w) the string they spell.                                           *)
(***************************************************************************)
EXTENDS Integers, Sequences, FiniteSets, TLC

VARIABLES
    text,       \* the input text handed to the text pipeline
    stripped,   \* the result of remove_html_tags(text)
    ranked,     \* the result of get_top_ten_words(text)
    ran,        \* which of the two functions have been applied to text
    rows,       \* table books as the connection sees it, in insertion order
    committed,  \* table books as of the last commit
    autoinc,    \* the AUTOINCREMENT counter as the connection sees it
    committedAutoinc, \* the AUTOINCREMENT counter as of the last commit
    partial,    \* ids of the rows present that a failed save inserted
    failures,   \* how many calls have raised so far
    last,       \* the last call that wrote to the store, and how it ended
    result,     \* what the last read since then returned
    history,    \* the titles in history_listbox
    button,     \* the state of search_url_button
    pc,         \* where search_by_url is: "idle", or "update" in root.update()
    cur_title,  \* the title of the search_by_url in progress
    cur_url     \* the url of the search_by_url in progress

textVars == <<text, stripped, ranked, ran>>

storeVars ==
    <<rows, committed, autoinc, committedAutoinc, partial, failures, last, result>>

appVars == <<history, button, pc, cur_title, cur_url>>

vars == <<text, stripped, ranked, ran,
          rows, committed, autoinc, committedAutoinc, partial, failures, last, result,
          history, button, pc, cur_title, cur_url>>

----------------------------------------------------------------------------
(* Characters *)

UpperLetters == <<"A","B","C","D","E","F","G","H","I","J","K","L","M",
                  "N","O","P","Q","R","S","T","U","V","W","X","Y","Z">>

LowerLetters == <<"a","b","c","d","e","f","g","h","i","j","k","l","m",
                  "n","o","p","q","r","s","t","u","v","w","x","y","z">>

\* Cased letters outside ASCII; one pair stands for them all.
UpperNonAscii == <<"\\u00C9">>

LowerNonAscii == <<"\\u00E9">>

IndexOf(seq, c) == CHOOSE i \in 1..Len(seq) : seq[i] = c

InSeq(seq, c) == \E i \in 1..Len(seq) : seq[i] = c

\* string.punctuation (the backquote is written as its code point)
Punctuation == {"!", "\"", "#", "$", "%", "&", "'", "(", ")", "*", "+", ",",
                "-", ".", "/", ":", ";", "<", "=", ">", "?", "@", "[", "\\",
                "]", "^", "_", "\\u0060", "{", "|", "}", "~"}

\* The characters str.split() separates on.
Whitespace == {" ", "\t", "\n", "\r", "\f", "\\u000B"}

\* str.lower() on one character: every cased letter, ASCII or not.
PyLowerChar(c) ==
    IF InSeq(UpperLetters, c) THEN LowerLetters[IndexOf(UpperLetters, c)]
    ELSE IF InSeq(UpperNonAscii, c) THEN LowerNonAscii[IndexOf(UpperNonAscii, c)]
    ELSE c

----------------------------------------------------------------------------
(* remove_html_tags: re.sub(r'<.*?>', '', text) *)

\* The end of the match of <.*?> that starts at i, or 0 when there is none:
\* the nearest ">" after i with no newline before it ("." matches any
\* character but "\n"; the pattern is compiled without re.DOTALL).
TagEnd(t, i) ==
    LET ends == {j \in (i+1)..Len(t) :
                    /\ t[j] = ">"
                    /\ \A k \in (i+1)..(j-1) : t[k] # "\n" /\ t[k] # ">"}
    IN IF t[i] = "<" /\ ends # {} THEN CHOOSE j \in ends : TRUE ELSE 0

RECURSIVE SubFrom(_, _)
SubFrom(t, i) ==
    IF i > Len(t) THEN <<>>
    ELSE IF TagEnd(t, i) # 0 THEN SubFrom(t, TagEnd(t, i) + 1)
    ELSE <<t[i]>> \o SubFrom(t, i + 1)

remove_html_tags(t) == SubFrom(t, 1)

----------------------------------------------------------------------------
(* get_top_ten_words *)

TOP_WORDS_LIMIT == 10

STOP_WORDS == {
    "the", "and", "to", "of", "a", "in", "is", "it", "for", "on", "with",
    "by", "at", "this", "but", "or", "an", "be", "from", "as", "that", "are",
    "was", "were", "will", "would", "should", "could", "can", "may", "might", "must",
    "project", "gutenberg", "gutenberg\\u00E2\\u201E\\u00A2", "ebook", "edition", "online", "http", "www",
    "i", "you", "he", "she", "we", "they", "me", "him", "her", "us", "them",
    "my", "your", "his", "her", "its", "our", "their", "mine", "yours", "ours", "theirs",
    "these", "those", "which", "what", "who", "whom", "whose", "when", "where", "why", "how",
    "am", "is", "are", "was", "were", "been", "being",
    "have", "has", "had", "having",
    "do", "does", "did", "doing",
    "if", "than", "then", "so", "because", "although", "though", "while", "before", "after",
    "about", "into", "through", "over", "under", "again", "further", "up", "down", "out",
    "very", "more", "most", "some", "any", "each", "few", "many", "such",
    "only", "just", "now", "too", "also", "even", "still", "yet",
    "thou", "thee", "thy", "thine", "hath", "doth", "shalt", "art",
    "said", "say", "says", "shall", "come", "came", "go", "went", "know", "knew",
    "look", "looked", "see", "saw", "felt", "thought", "told", "made", "make", "found", "asked", "replied"}

\* text.translate(self.translator): every punctuation character is deleted.
translate(t) == SelectSeq(t, LAMBDA c : c \notin Punctuation)

\* str.lower()
lower(t) == [i \in 1..Len(t) |-> PyLowerChar(t[i])]

\* str.split(): the maximal runs of characters that are not whitespace;
\* cur is the run being read.
RECURSIVE SplitFrom(_, _, _)
SplitFrom(t, i, cur) ==
    IF i > Len(t) THEN (IF cur = <<>> THEN <<>> ELSE <<cur>>)
    ELSE IF t[i] \in Whitespace
         THEN (IF cur = <<>> THEN <<>> ELSE <<cur>>) \o SplitFrom(t, i + 1, <<>>)
         ELSE SplitFrom(t, i + 1, Append(cur, t[i]))

split(t) == SplitFrom(t, 1, <<>>)

\* The string a word spells.
RECURSIVE Str(_)
Str(w) == IF w = <<>> THEN "" ELSE w[1] \o Str(Tail(w))

Count(words, w) == Cardinality({i \in 1..Len(words) : words[i] = w})

\* Counter(words).items(): one (word, count) pair per distinct word, in the
\* order the words were first inserted.
RECURSIVE CounterFrom(_, _)
CounterFrom(words, i) ==
    IF i > Len(words) THEN <<>>
    ELSE IF \E j \in 1..(i-1) : words[j] = words[i]
         THEN CounterFrom(words, i + 1)
         ELSE <<<<words[i], Count(words, words[i])>>>> \o CounterFrom(words, i + 1)

Counter(words) == CounterFrom(words, 1)

RemoveAt(seq, i) == SubSeq(seq, 1, i - 1) \o SubSeq(seq, i + 1, Len(seq))

\* A slip: an unstable selection, which of equal counts takes the later item.
RECURSIVE nlargest_Unstable(_, _)
nlargest_Unstable(n, items) ==
    IF n <= 0 \/ items = <<>> THEN <<>>
    ELSE LET i == CHOOSE k \in 1..Len(items) :
                    /\ \A j \in 1..Len(items) : items[j][2] <= items[k][2]
                    /\ \A j \in (k+1)..Len(items) : items[j][2] < items[k][2]
         IN <<items[i]>> \o nlargest_Unstable(n - 1, RemoveAt(items, i))

\* heapq.nlargest(n, items, key=count), which is sorted(items, key=count,
\* reverse=True)[:n]: the sort is stable, so of equal counts the earlier
\* item comes first.
RECURSIVE nlargest(_, _)
nlargest(n, items) ==
    IF n <= 0 \/ items = <<>> THEN <<>>
    ELSE LET i == CHOOSE k \in 1..Len(items) :
                    /\ \A j \in 1..Len(items) : items[j][2] <= items[k][2]
                    /\ \A j \in 1..(k-1) : items[j][2] < items[k][2]
         IN <<items[i]>> \o nlargest(n - 1, RemoveAt(items, i))

\* A slip: the limit is not passed on, and every counted word is returned.
most_common_Unlimited(counter, n) == nlargest(Len(counter), counter)

\* Counter.most_common(n)
most_common(counter, n) == nlargest(n, counter)

\* A slip: the stop words are dropped from the text as written, before it is
\* lowercased.
FilteredWords_CaseSensitive(t) ==
    LET kept == SelectSeq(split(translate(t)), LAMBDA w : Str(w) \notin STOP_WORDS)
    IN [i \in 1..Len(kept) |-> lower(kept[i])]

\* The words that are counted: cleaned_text.split() without the stop words.
FilteredWords(t) ==
    SelectSeq(split(lower(translate(t))), LAMBDA w : Str(w) \notin STOP_WORDS)

get_top_ten_words(t) ==
    LET words == FilteredWords(t)
    IN IF words = <<>> THEN <<>>
       ELSE most_common(Counter(words), TOP_WORDS_LIMIT)

----------------------------------------------------------------------------
(* BookManager: table books behind one sqlite3 connection.  The connection  *)
(* opens a transaction before the first INSERT or DELETE and keeps it open  *)
(* until commit(); what it has written and not committed is in rows and     *)
(* not in committed.                                                        *)

NoCall == [op |-> "none"]

NoResult == [op |-> "none"]

\* After BookManager.__init__: the table exists and is empty.
StoreInit ==
    /\ rows = <<>>
    /\ committed = <<>>
    /\ autoinc = 0
    /\ committedAutoinc = 0
    /\ partial = {}
    /\ failures = 0
    /\ last = NoCall
    /\ result = NoResult

\* The window as create_widgets leaves it over an empty table.
AppIdle ==
    /\ history = <<>>
    /\ button = "normal"
    /\ pc = "idle"
    /\ cur_title = <<>>
    /\ cur_url = <<>>

Conn == [rows |-> rows, committed |-> committed,
         autoinc |-> autoinc, committedAutoinc |-> committedAutoinc]

\* self.conn.commit()
commit(c) == [c EXCEPT !.committed = c.rows, !.committedAutoinc = c.autoinc]

\* SQLite rolling the open transaction back by itself, as it may on an error
\* such as a full disk or an I/O error.
rollback(c) == [c EXCEPT !.rows = c.committed, !.autoinc = c.committedAutoinc]

\* How a call that writes ends.  ok: no sqlite3.Error.  Otherwise done is the
\* number of statements that ran before the one that raised (done statements
\* and then a failing commit when all of them ran), and rolledBack says
\* whether SQLite rolled the transaction back on the error (what had been
\* done is then undone, so done is left at 0) or left it open.
Outcomes(statements) ==
    {[ok |-> TRUE, done |-> statements, rolledBack |-> FALSE]}
    \cup [ok : {FALSE}, done : 0..statements, rolledBack : {FALSE}]
    \cup {[ok |-> FALSE, done |-> 0, rolledBack |-> TRUE]}

\* A slip: the last row of the list is not inserted.
executemany_insert_DropsLast(c, title, top_words, k) ==
    [c EXCEPT !.rows = c.rows \o [i \in 1..(k - 1) |->
                           [id |-> c.autoinc + i, title |-> title,
                            word |-> top_words[i][1],
                            frequency |-> top_words[i][2]]],
              !.autoinc = c.autoinc + k]

\* cursor.executemany("INSERT INTO books (title, word, frequency) ..."), the
\* first k rows of it: each row gets the next id.
executemany_insert(c, title, top_words, k) ==
    [c EXCEPT !.rows = c.rows \o [i \in 1..k |->
                           [id |-> c.autoinc + i, title |-> title,
                            word |-> top_words[i][1],
                            frequency |-> top_words[i][2]]],
              !.autoinc = c.autoinc + k]

\* BookManager.save_book_data: the connection after the call.  Nothing is
\* undone when the call raises.
save_book_data(c, title, top_words, out) ==
    IF out.ok THEN commit(executemany_insert(c, title, top_words, Len(top_words)))
    ELSE IF out.rolledBack THEN rollback(c)
    ELSE executemany_insert(c, title, top_words, out.done)

\* A slip: the titles are compared ignoring letter case.
execute_delete_IgnoringCase(c, title) ==
    [c EXCEPT !.rows = SelectSeq(c.rows, LAMBDA r : lower(r.title) # lower(title))]

\* cursor.execute("DELETE FROM books WHERE title = ?")
execute_delete(c, title) ==
    [c EXCEPT !.rows = SelectSeq(c.rows, LAMBDA r : r.title # title)]

\* BookManager.delete_book_data
delete_book_data(c, title, out) ==
    IF out.ok THEN commit(execute_delete(c, title))
    ELSE IF out.rolledBack THEN rollback(c)
    ELSE IF out.done = 1 THEN execute_delete(c, title)
    ELSE c

\* BookManager.delete_all_records
delete_all_records(c, out) ==
    IF out.ok THEN commit([c EXCEPT !.rows = <<>>])
    ELSE IF out.rolledBack THEN rollback(c)
    ELSE IF out.done = 1 THEN [c EXCEPT !.rows = <<>>]
    ELSE c

\* SQLite's built-in lower() on one character: it folds the ASCII letters
\* and leaves every other character as it is.
SqliteLowerChar(ch) ==
    IF InSeq(UpperLetters, ch) THEN LowerLetters[IndexOf(UpperLetters, ch)]
    ELSE ch

\* LOWER(title)
LOWER(t) == [i \in 1..Len(t) |-> SqliteLowerChar(t[i])]

\* A slip: the titles are compared as they are written.
fetch_book_data_Exact(c, title) ==
    LET hit == SelectSeq(c.rows, LAMBDA r : r.title = title)
    IN [i \in 1..Len(hit) |-> <<hit[i].word, hit[i].frequency>>]

\* BookManager.fetch_book_data: SELECT word, frequency FROM books WHERE
\* LOWER(title) = LOWER(?)
fetch_book_data(c, title) ==
    LET hit == SelectSeq(c.rows, LAMBDA r : LOWER(r.title) = LOWER(title))
    IN [i \in 1..Len(hit) |-> <<hit[i].word, hit[i].frequency>>]

TitlesOf(table) == {table[i].title : i \in 1..Len(table)}

IdsOf(table) == {table[i].id : i \in 1..Len(table)}

IdsOfTitle(table, t) == {table[i].id : i \in {j \in 1..Len(table) : table[j].title = t}}

\* The titles ts in descending order of the id pick gives each of them.
RECURSIVE DescendingBy(_, _)
DescendingBy(ts, pick) ==
    IF ts = {} THEN <<>>
    ELSE LET t == CHOOSE x \in ts : \A y \in ts : pick[y] <= pick[x]
         IN <<t>> \o DescendingBy(ts \ {t}, pick)

\* A slip: ORDER BY id, oldest first.
RECURSIVE AscendingBy(_, _)
AscendingBy(ts, pick) ==
    IF ts = {} THEN <<>>
    ELSE LET t == CHOOSE x \in ts : \A y \in ts : pick[y] >= pick[x]
         IN <<t>> \o AscendingBy(ts \ {t}, pick)

\* The ways of picking, for each of the titles ts, the id of one of its rows.
RECURSIVE PicksOf(_, _)
PicksOf(table, ts) ==
    IF ts = {} THEN {<<>>}
    ELSE LET t == CHOOSE x \in ts : TRUE
         IN {(t :> i) @@ f : i \in IdsOfTitle(table, t), f \in PicksOf(table, ts \ {t})}

fetch_all_titles_OldestFirst(c) ==
    {AscendingBy(TitlesOf(c.rows), pick) : pick \in PicksOf(c.rows, TitlesOf(c.rows))}

\* BookManager.fetch_all_titles: SELECT DISTINCT title FROM books ORDER BY id
\* DESC.  id is not a column of the DISTINCT result, so which row of a title
\* gives the id it is ordered by is SQLite's choice: the lists the query may
\* return, one for each way of picking a row per title.
fetch_all_titles(c) ==
    {DescendingBy(TitlesOf(c.rows), pick) : pick \in PicksOf(c.rows, TitlesOf(c.rows))}

----------------------------------------------------------------------------
(* BookSearchApp: the handlers that read and write the store.  What they     *)
(* show in output_text and in message boxes is left out.                     *)

Digits == {"0", "1", "2", "3", "4", "5", "6", "7", "8", "9"}

\* \w of a str pattern: a letter, a digit or the underscore.
IsWordChar(ch) ==
    \/ InSeq(UpperLetters, ch) \/ InSeq(LowerLetters, ch)
    \/ InSeq(UpperNonAscii, ch) \/ InSeq(LowerNonAscii, ch)
    \/ ch \in Digits
    \/ ch = "_"

\* str.strip(): without the leading and the trailing whitespace.
strip(t) ==
    LET solid == {i \in 1..Len(t) : t[i] \notin Whitespace}
    IN IF solid = {} THEN <<>>
       ELSE SubSeq(t, CHOOSE i \in solid : \A j \in solid : i <= j,
                      CHOOSE i \in solid : \A j \in solid : j <= i)

MAX_TITLE_LENGTH == 255

\* BookSearchApp.sanitize_input: re.sub(r'[^\w\s-]', '', text.strip())[:255]
sanitize_input(t) ==
    LET kept == SelectSeq(strip(t), LAMBDA ch :
                    IsWordChar(ch) \/ ch \in Whitespace \/ ch = "-")
    IN SubSeq(kept, 1, IF Len(kept) < MAX_TITLE_LENGTH THEN Len(kept)
                       ELSE MAX_TITLE_LENGTH)

\* A URL as urlparse splits it: its scheme, and its netloc character by
\* character, which is all between "//" and the next "/": user information,
\* host and port.  EmptyUrl is ''.
EmptyUrl == [scheme |-> "", netloc |-> <<>>]

\* sub in t, of str
Contains(t, sub) ==
    \E i \in 0..(Len(t) - Len(sub)) : SubSeq(t, i + 1, i + Len(sub)) = sub

\* 'gutenberg.org'
GutenbergOrg == <<"g","u","t","e","n","b","e","r","g",".","o","r","g">>

\* BookSearchApp.is_valid_gutenberg_url
is_valid_gutenberg_url(u) ==
    /\ u.scheme \in {"http", "https"}
    /\ Contains(u.netloc, GutenbergOrg)

\* BookSearchApp.fetch_text_from_url: the page as decoded, without its tags.
fetch_text_from_url(page) == remove_html_tags(page)

\* BookSearchApp.populate_history: the lists the listbox may hold afterwards.
\* It is emptied first, and stays empty when fetch_all_titles raises.
populate_history(c, readOk) == IF readOk THEN fetch_all_titles(c) ELSE {<<>>}

----------------------------------------------------------------------------
(* The text pipeline on its own: each function applied to a text. *)

MaxTextLen == 4

MaxTokens == 4

Alphabet == {"a", "A", "b", " ", "<", ">", "\n"}

CharTexts == UNION {[1..n -> Alphabet] : n \in 0..MaxTextLen}

Vocabulary == {<<"c","a","t">>, <<"C","A","T">>, <<"s","a","t">>,
               <<"T","h","e">>, <<"o",".","n">>}

RECURSIVE Join(_, _)
Join(tokens, sep) ==
    IF tokens = <<>> THEN <<>>
    ELSE IF Len(tokens) = 1 THEN tokens[1]
    ELSE tokens[1] \o sep \o Join(Tail(tokens), sep)

TokenTexts ==
    {Join(ts, <<" ">>) : ts \in UNION {[1..n -> Vocabulary] : n \in 0..MaxTokens}}

\* More distinct words than TOP_WORDS_LIMIT: the one-letter words below in
\* every rotation, one of them (or none) said once more at the end.
LongWords == <<"b","c","d","e","f","g","h","j","k","l","m","n">>

Rotate(seq, r) == [i \in 1..Len(seq) |-> seq[((i - 1 + r) % Len(seq)) + 1]]

LongTexts ==
    {Join([i \in 1..Len(LongWords) |-> <<Rotate(LongWords, r)[i]>>], <<" ">>)
        \o (IF x = 0 THEN <<>> ELSE <<"\n", LongWords[x]>>) :
     r \in 0..(Len(LongWords) - 1), x \in 0..Len(LongWords)}

\* "the cat sat on the mat. The CAT ran."
ExampleText ==
    <<"t","h","e"," ","c","a","t"," ","s","a","t"," ","o","n"," ","t","h","e",
      " ","m","a","t","."," ","T","h","e"," ","C","A","T"," ","r","a","n",".">>

TextInputs == CharTexts \cup TokenTexts \cup LongTexts \cup {ExampleText}

TextInit ==
    /\ text \in TextInputs
    /\ stripped = <<>>
    /\ ranked = <<>>
    /\ ran = {}
    /\ StoreInit
    /\ AppIdle

StripMarkup ==
    /\ "strip" \notin ran
    /\ stripped' = remove_html_tags(text)
    /\ ran' = ran \cup {"strip"}
    /\ UNCHANGED <<text, ranked>>
    /\ UNCHANGED <<storeVars, appVars>>

RankWords ==
    /\ "rank" \notin ran
    /\ ranked' = get_top_ten_words(text)
    /\ ran' = ran \cup {"rank"}
    /\ UNCHANGED <<text, stripped>>
    /\ UNCHANGED <<storeVars, appVars>>

TextNext == StripMarkup \/ RankWords

SpecText == TextInit /\ [][TextNext]_vars

----------------------------------------------------------------------------
(* Properties of the text pipeline, checked under SpecText. *)

\* The first place of word w in the sequence of words fw.
FirstOccurrence(fw, w) ==
    CHOOSE i \in 1..Len(fw) : fw[i] = w /\ \A j \in 1..(i-1) : fw[j] # w

\* Word v ranks before word w in the filtered words fw: more frequent, or as
\* frequent and first seen earlier.
RanksBefore(fw, v, w) ==
    \/ Count(fw, v) > Count(fw, w)
    \/ /\ Count(fw, v) = Count(fw, w)
       /\ FirstOccurrence(fw, v) < FirstOccurrence(fw, w)

RankedWords == {ranked[i][1] : i \in 1..Len(ranked)}

WordsOf(fw) == {fw[i] : i \in 1..Len(fw)}

\* C6: the result of rankWords is ordered by frequency descending and, among
\* words of equal frequency, by first occurrence in the filtered words; a
\* word left out ranks after every word kept; and the example text yields
\* [(cat,2),(sat,1),(mat,1),(ran,1)].
C6_RankOrder ==
    "rank" \in ran =>
        LET fw == FilteredWords(text)
        IN /\ \A i \in 1..(Len(ranked) - 1) :
                 RanksBefore(fw, ranked[i][1], ranked[i+1][1])
           /\ \A w \in WordsOf(fw) \ RankedWords :
                 RanksBefore(fw, ranked[Len(ranked)][1], w)
           /\ text = ExampleText =>
                 ranked = << <<<<"c","a","t">>, 2>>, <<<<"s","a","t">>, 1>>,
                             <<<<"m","a","t">>, 1>>, <<<<"r","a","n">>, 1>> >>

\* C6's case: more words are tied at the cut-off than the limit admits.
C6_Witness ==
    /\ "rank" \in ran
    /\ Len(ranked) = TOP_WORDS_LIMIT
    /\ \E w \in WordsOf(FilteredWords(text)) \ RankedWords :
          Count(FilteredWords(text), w) = ranked[Len(ranked)][2]
    /\ ranked[1][2] > ranked[2][2]

\* C7: rankWords returns at most TOP_WORDS_LIMIT entries, each frequency is
\* at least 1 and is the number of occurrences of the word among the
\* filtered words, no word is returned twice, and the result is empty when
\* no word survives the filter.
C7_RankBounds ==
    "rank" \in ran =>
        LET fw == FilteredWords(text)
        IN /\ Len(ranked) <= TOP_WORDS_LIMIT
           /\ \A i \in 1..Len(ranked) :
                 /\ ranked[i][2] >= 1
                 /\ ranked[i][2] = Count(fw, ranked[i][1])
           /\ \A i, j \in 1..Len(ranked) : i # j => ranked[i][1] # ranked[j][1]
           /\ fw = <<>> => ranked = <<>>

\* C7's case: the text has more distinct counted words than the limit.
C7_Witness ==
    /\ "rank" \in ran
    /\ Cardinality(WordsOf(FilteredWords(text))) > TOP_WORDS_LIMIT
    /\ Len(ranked) = TOP_WORDS_LIMIT

\* C8: no returned word is a stop word, however it was written in the text:
\* lowercased and without punctuation, it is not in STOP_WORDS.
C8_NoStopWords ==
    "rank" \in ran =>
        \A i \in 1..Len(ranked) :
            /\ Str(ranked[i][1]) \notin STOP_WORDS
            /\ Str(lower(translate(ranked[i][1]))) \notin STOP_WORDS

\* The raw tokens of a text, as written.
RawTokens(t) == {split(t)[i] : i \in 1..Len(split(t))}

\* C8's case: the text holds a stop word in capitals and one with
\* punctuation inside, next to a word that is returned.
C8_Witness ==
    /\ "rank" \in ran
    /\ ranked # <<>>
    /\ \E w \in RawTokens(text) :
          /\ Str(w) \notin STOP_WORDS
          /\ Str(lower(w)) \in STOP_WORDS
    /\ \E w \in RawTokens(text) :
          /\ Str(lower(w)) \notin STOP_WORDS
          /\ Str(lower(translate(w))) \in STOP_WORDS

\* remove_html_tags as the claim describes it: "<", any characters at all,
\* newlines too, up to the nearest ">".
SpanEnd(t, i) ==
    LET ends == {j \in (i+1)..Len(t) :
                    t[j] = ">" /\ \A k \in (i+1)..(j-1) : t[k] # ">"}
    IN IF t[i] = "<" /\ ends # {} THEN CHOOSE j \in ends : TRUE ELSE 0

RECURSIVE WithoutSpans(_, _)
WithoutSpans(t, i) ==
    IF i > Len(t) THEN <<>>
    ELSE IF SpanEnd(t, i) # 0 THEN WithoutSpans(t, SpanEnd(t, i) + 1)
    ELSE <<t[i]>> \o WithoutSpans(t, i + 1)

\* C9: stripMarkup removes every "<...>" span, newlines between the
\* brackets included: no "<" of the output is followed by a ">", and the
\* output is the text without its spans.
C9_StripsEverySpan ==
    "strip" \in ran =>
        /\ \A i, j \in 1..Len(stripped) :
              i < j => ~(stripped[i] = "<" /\ stripped[j] = ">")
        /\ stripped = WithoutSpans(text, 1)

\* What the code does hold to: the same, for spans without a newline.
C9_StripsSpansWithinLine ==
    "strip" \in ran =>
        /\ \A i, j \in 1..Len(stripped) :
              (i < j /\ stripped[i] = "<" /\ stripped[j] = ">")
                  => \E k \in (i+1)..(j-1) : stripped[k] = "\n"
        /\ ("\n" \notin {text[i] : i \in 1..Len(text)})
              => stripped = WithoutSpans(text, 1)

----------------------------------------------------------------------------
(* The store on its own: any sequence of calls of BookManager's methods on  *)
(* one connection, each ending in any way it can.                           *)

MaxId == 3

MaxFailures == 1

MaxWords == 2

\* The titles rows are saved and deleted under, and the titles asked for.
StoreTitles == {<<"M","o">>, <<"m","o">>, <<"\\u00C9">>}

QueryTitles == StoreTitles \cup {<<"\\u00E9">>}

WordCounts == << <<<<"b">>, 2>>, <<<<"c">>, 1>>, <<<<"d">>, 1>>, <<<<"e">>, 1>> >>

\* The ranked lists handed to save: distinct words, frequencies descending;
\* here the empty list and the first words of one ranking.
RankedLists == {SubSeq(WordCounts, 1, n) : n \in 0..MaxWords}

SetConn(c) ==
    /\ rows' = c.rows
    /\ committed' = c.committed
    /\ autoinc' = c.autoinc
    /\ committedAutoinc' = c.committedAutoinc

\* A call may raise while fewer than MaxFailures calls have.
Raises(out) ==
    /\ ~out.ok => failures < MaxFailures
    /\ failures' = IF out.ok THEN failures ELSE failures + 1

\* The ids of partial that are still in the table of connection c.
StillPresent(ids, c) == ids \cap (IdsOf(c.rows) \cup IdsOf(c.committed))

Save ==
    \E t \in StoreTitles, w \in RankedLists :
        \E out \in Outcomes(Len(w)) :
            /\ autoinc + Len(w) <= MaxId
            /\ Raises(out)
            /\ LET c == save_book_data(Conn, t, w, out)
                   new == IF out.ok THEN {} ELSE (autoinc + 1)..(autoinc + out.done)
               IN /\ SetConn(c)
                  /\ partial' = StillPresent(partial \cup new, c)
            /\ last' = IF out.ok
                       THEN [op |-> "save", title |-> t, ok |-> TRUE, words |-> w,
                             fresh |-> \A r \in TitlesOf(rows) : lower(r) # lower(t)]
                       ELSE [op |-> "save", title |-> t, ok |-> FALSE]
            /\ result' = NoResult
            /\ UNCHANGED <<textVars, appVars>>

DeleteByTitle ==
    \E t \in StoreTitles, out \in Outcomes(1) :
        /\ Raises(out)
        /\ LET c == delete_book_data(Conn, t, out)
           IN /\ SetConn(c)
              /\ partial' = StillPresent(partial, c)
        /\ last' = [op |-> "delete", title |-> t, ok |-> out.ok]
        /\ result' = NoResult
        /\ UNCHANGED <<textVars, appVars>>

DeleteAll ==
    \E out \in Outcomes(1) :
        /\ Raises(out)
        /\ LET c == delete_all_records(Conn, out)
           IN /\ SetConn(c)
              /\ partial' = StillPresent(partial, c)
        /\ last' = [op |-> "delete_all", ok |-> out.ok]
        /\ result' = NoResult
        /\ UNCHANGED <<textVars, appVars>>

FetchByTitle ==
    \E t \in QueryTitles :
        /\ result' = [op |-> "fetch", title |-> t, rows |-> fetch_book_data(Conn, t)]
        /\ UNCHANGED <<rows, committed, autoinc, committedAutoinc, partial,
                       failures, last>>
        /\ UNCHANGED <<textVars, appVars>>

ListTitles ==
    \E ts \in fetch_all_titles(Conn) :
        /\ result' = [op |-> "titles", titles |-> ts]
        /\ UNCHANGED <<rows, committed, autoinc, committedAutoinc, partial,
                       failures, last>>
        /\ UNCHANGED <<textVars, appVars>>

StoreOnlyInit ==
    /\ text = <<>>
    /\ stripped = <<>>
    /\ ranked = <<>>
    /\ ran = {}
    /\ StoreInit
    /\ AppIdle

StoreNext == Save \/ DeleteByTitle \/ DeleteAll \/ FetchByTitle \/ ListTitles

SpecStore == StoreOnlyInit /\ [][StoreNext]_vars

----------------------------------------------------------------------------
(* Properties of the store, checked under SpecStore. *)

\* C1: save is all-or-nothing: no row that a failed save inserted is in the
\* table, neither as the connection sees it right after the failure nor as
\* committed by a later call.
C1_SaveAllOrNothing == partial = {}

\* The part of C1 about later calls: no row of a failed save is committed.
C1_NeverCommitted == partial \cap IdsOf(committed) = {}

\* The pairs (word, frequency) of the rows of a table that pass a test on
\* the title.
PairsWhere(table, Test(_)) ==
    {<<table[i].word, table[i].frequency>> :
        i \in {j \in 1..Len(table) : Test(table[j].title)}}

SetOf(s) == {s[i] : i \in 1..Len(s)}

\* Titles that differ at most in the case of ASCII letters.
SameButAsciiCase(t1, t2) ==
    /\ Len(t1) = Len(t2)
    /\ \A i \in 1..Len(t1) :
          \/ t1[i] = t2[i]
          \/ \E k \in 1..Len(UpperLetters) :
                {t1[i], t2[i]} = {UpperLetters[k], LowerLetters[k]}

\* Titles that differ at most in letter case.
SameButCase(t1, t2) == lower(t1) = lower(t2)

DeletedThenFetched ==
    /\ last.op = "delete"
    /\ last.ok
    /\ result.op = "fetch"
    /\ result.title = last.title

\* C2 as stated: a successful deleteByTitle(t) followed by fetchByTitle(t)
\* returns an empty list.
C2_DeleteThenFetchEmpty == DeletedThenFetched => result.rows = <<>>

\* C2 as amended: a successful deleteByTitle(t) followed by fetchByTitle(t)
\* returns no row stored under t itself: it returns exactly the rows stored
\* under the titles that differ from t only in the case of ASCII letters,
\* and the empty list when there are none.
C2_DeleteThenFetchOtherCasings ==
    DeletedThenFetched =>
        /\ SetOf(result.rows) =
              PairsWhere(rows, LAMBDA t : t # last.title /\ SameButAsciiCase(t, last.title))
        /\ Len(result.rows) =
              Cardinality({i \in 1..Len(rows) :
                  rows[i].title # last.title /\ SameButAsciiCase(rows[i].title, last.title)})
        /\ (\A t \in TitlesOf(rows) : ~SameButAsciiCase(t, last.title))
              => result.rows = <<>>

\* C2's case: rows were stored under t and under another casing of t, t was
\* deleted and then fetched.
C2_Witness ==
    /\ DeletedThenFetched
    /\ last.title \notin TitlesOf(committed)
    /\ \E t \in TitlesOf(rows) : t # last.title /\ SameButAsciiCase(t, last.title)
    /\ result.rows # <<>>

SavedThenFetched ==
    /\ last.op = "save"
    /\ last.ok
    /\ result.op = "fetch"
    /\ result.title = last.title

\* C3: when no row has a title equal to t ignoring case, a successful
\* save(t, W) followed by fetchByTitle(t) returns exactly the pairs of W.
C3_RoundTrip ==
    (SavedThenFetched /\ last.fresh) =>
        /\ SetOf(result.rows) = SetOf(last.words)
        /\ Len(result.rows) = Len(last.words)

\* C3's case: a list of two words saved under a fresh title next to the
\* rows of another title, and fetched.
C3_Witness ==
    /\ SavedThenFetched
    /\ last.fresh
    /\ Len(last.words) = 2
    /\ \E t \in TitlesOf(rows) : t # last.title
    /\ Len(result.rows) = 2

\* C4: fetchByTitle returns the same rows for two titles that differ only in
\* letter case, and listTitles returns titles in the casing they were saved
\* under.
C4_CaseInsensitiveFetch ==
    /\ \A t1, t2 \in QueryTitles :
          SameButCase(t1, t2) => fetch_book_data(Conn, t1) = fetch_book_data(Conn, t2)
    /\ result.op = "titles" => SetOf(result.titles) = TitlesOf(rows)
    /\ (result.op = "titles" /\ last.op = "save" /\ last.ok /\ last.words # <<>>)
          => last.title \in SetOf(result.titles)

\* What the code does hold to: the same for titles that differ only in the
\* case of ASCII letters.
C4_AsciiCaseInsensitiveFetch ==
    /\ \A t1, t2 \in QueryTitles :
          SameButAsciiCase(t1, t2) => fetch_book_data(Conn, t1) = fetch_book_data(Conn, t2)
    /\ result.op = "titles" => SetOf(result.titles) = TitlesOf(rows)
    /\ (result.op = "titles" /\ last.op = "save" /\ last.ok /\ last.words # <<>>)
          => last.title \in SetOf(result.titles)

\* The places of the rows of title t in the table, which is in insertion
\* order.
PlacesOf(table, t) == {i \in 1..Len(table) : table[i].title = t}

\* C10: listTitles returns every title that has a row exactly once and no
\* other, and a title whose rows were all inserted after all rows of another
\* comes before it.
C10_ListTitles ==
    result.op = "titles" =>
        /\ SetOf(result.titles) = TitlesOf(rows)
        /\ \A i, j \in 1..Len(result.titles) :
              i # j => result.titles[i] # result.titles[j]
        /\ \A i, j \in 1..Len(result.titles) :
              (\A a \in PlacesOf(rows, result.titles[i]) :
                  \A b \in PlacesOf(rows, result.titles[j]) : a < b)
                 => j < i

\* C10's case: two titles listed, one of them with two rows, the rows of one
\* all inserted after the rows of the other.
C10_Witness ==
    /\ result.op = "titles"
    /\ Len(result.titles) = 2
    /\ Len(rows) = 3
    /\ \A a \in PlacesOf(rows, result.titles[2]) :
          \A b \in PlacesOf(rows, result.titles[1]) : a < b

----------------------------------------------------------------------------
(* The application: the user's clicks, in any order. *)

\* The ids handed out, the titles stored at a time, and the calls that
\* raise.
MaxAppId == 11
MaxTitles == 2
MaxAppFailures == 2

\* What the user may have typed into title_entry.
TitleEntries == {<<>>, <<"M","o">>, <<"m","o">>, <<" ","M","o","!">>,
                 <<"\\u00C9">>}

\* Other things to type: a capital and a small e acute, and "! !".
OtherTitleEntries == {<<>>, <<"\\u00C9">>, <<"\\u00E9">>, <<"!"," ","!">>}

\* What the user may have typed into url_entry, stripped and parsed.
\* "", "https://www.gutenberg.org/", "ftp://gutenberg.org/", "https://example.com/"
\* and "https://gutenberg.org@example.com/".
UrlEntries == {EmptyUrl,
               [scheme |-> "https", netloc |-> <<"w","w","w",".","g","u","t","e","n","b","e","r","g",".","o","r","g">>],
               [scheme |-> "ftp", netloc |-> <<"g","u","t","e","n","b","e","r","g",".","o","r","g">>],
               [scheme |-> "https", netloc |-> <<"e","x","a","m","p","l","e",".","c","o","m">>],
               [scheme |-> "https", netloc |-> <<"g","u","t","e","n","b","e","r","g",".","o","r","g","@","e","x","a","m","p","l","e",".","c","o","m">>]}

\* "<p>b c d e f g h j k l m\nb</p>": one word more than TOP_WORDS_LIMIT.
PageLong ==
    <<"<","p",">">> \o Join([i \in 1..(TOP_WORDS_LIMIT + 1) |-> <<LongWords[i]>>], <<" ">>)
        \o <<"\n","b","<","/","p",">">>

\* "<b>cat</b> The CAT"
PageShort == <<"<","b",">","c","a","t","<","/","b",">"," ","T","h","e"," ","C","A","T">>

\* "<p>The</p>": no word is left to count.
PageNoWords == <<"<","p",">","T","h","e","<","/","p",">">>

\* What urlopen may give for a URL, decoded.
Pages == {PageLong, PageShort, PageNoWords}

\* top_words for each page: get_top_ten_words(fetch_text_from_url(url)).
TopWordsOf == [page \in Pages |-> get_top_ten_words(fetch_text_from_url(page))]

\* title for each entry: sanitize_input(self.title_entry.get()).
TitleOf == [entry \in TitleEntries \cup OtherTitleEntries |-> sanitize_input(entry)]

\* n calls raise in this step.
Raise(n) ==
    /\ failures + n <= MaxAppFailures
    /\ failures' = failures + n

\* 1 for a call that raised, 0 for one that did not.
Raised(ok) == IF ok THEN 0 ELSE 1

\* What a handler that only reads leaves alone.
StoreUntouched ==
    UNCHANGED <<rows, committed, autoinc, committedAutoinc, partial, history>>

\* messagebox.showwarning(...); return
Return == UNCHANGED <<button, pc, cur_title, cur_url>>

\* if not title: the warning and the return.
NoTitle(t) ==
    /\ t = <<>>
    /\ Return
    /\ UNCHANGED failures

\* fetch_book_data raises, outside the try block, and the handler with it.
LookupRaises(t) ==
    /\ t # <<>>
    /\ Raise(1)
    /\ Return

\* if existing_data: "Title Exists" and the return.
TitleExists(t) ==
    /\ t # <<>>
    /\ fetch_book_data(Conn, t) # <<>>
    /\ Return
    /\ UNCHANGED failures

\* if not url or not self.is_valid_gutenberg_url(url): the warning and the
\* return.
UrlRefused(t, u) ==
    /\ t # <<>>
    /\ fetch_book_data(Conn, t) = <<>>
    /\ u = EmptyUrl \/ ~is_valid_gutenberg_url(u)
    /\ Return
    /\ UNCHANGED failures

\* A slip: the button is left as it is.
Loading_ButtonLeft(t, u) ==
    /\ UNCHANGED button
    /\ pc' = "update"
    /\ cur_title' = t
    /\ cur_url' = u

\* "Loading...", the button disabled, and root.update().
Loading(t, u) ==
    /\ button' = "disabled"
    /\ pc' = "update"
    /\ cur_title' = t
    /\ cur_url' = u

\* The checks passed: on to the fetch.
UrlAccepted(t, u) ==
    /\ t # <<>>
    /\ fetch_book_data(Conn, t) = <<>>
    /\ u # EmptyUrl
    /\ is_valid_gutenberg_url(u)
    /\ Loading(t, u)
    /\ UNCHANGED failures

\* search_by_url up to root.update(), the title typed one of entries and
\* the URL u.  Tk runs the command of a button only while the button is not
\* disabled, and nothing else keeps the handler from running.
SearchByUrlWith(entries, u) ==
    /\ button = "normal"
    /\ \E entry \in entries :
          LET t == TitleOf[entry]
          IN \/ NoTitle(t)
             \/ LookupRaises(t)
             \/ TitleExists(t)
             \/ UrlRefused(t, u)
             \/ UrlAccepted(t, u)
    /\ StoreUntouched
    /\ UNCHANGED <<textVars, last, result>>

SearchByUrlOf(entries) == \E u \in UrlEntries : SearchByUrlWith(entries, u)

SearchByUrl == SearchByUrlOf(TitleEntries)

\* finally: self.search_url_button.config(state="normal"), and the handler
\* returns: no search_by_url is in progress.
Finally ==
    /\ button' = "normal"
    /\ pc' = "idle"
    /\ cur_title' = <<>>
    /\ cur_url' = <<>>

\* A statement that did not raise.
Done == [ok |-> TRUE, done |-> 1, rolledBack |-> FALSE]

\* The connection after the delete_book_data(title) of the try block.
Deleted == delete_book_data(Conn, cur_title, Done)

\* delete_book_data raises: except RuntimeError, finally.
DeleteRaises ==
    /\ pc = "update"
    /\ \E dOut \in Outcomes(1) :
          LET c1 == delete_book_data(Conn, cur_title, dOut)
          IN /\ ~dOut.ok
             /\ Raise(1)
             /\ SetConn(c1)
             /\ partial' = StillPresent(partial, c1)
    /\ UNCHANGED history
    /\ Finally
    /\ UNCHANGED <<textVars, last, result>>

\* fetch_text_from_url raises: except RuntimeError, finally.
FetchRaises ==
    /\ pc = "update"
    /\ SetConn(Deleted)
    /\ partial' = StillPresent(partial, Deleted)
    /\ UNCHANGED <<failures, history>>
    /\ Finally
    /\ UNCHANGED <<textVars, last, result>>

\* if not top_words: the early return, finally.
NoWords ==
    /\ pc = "update"
    /\ \E page \in Pages : TopWordsOf[page] = <<>>
    /\ SetConn(Deleted)
    /\ partial' = StillPresent(partial, Deleted)
    /\ UNCHANGED <<failures, history>>
    /\ Finally
    /\ UNCHANGED <<textVars, last, result>>

\* save_book_data does not raise: populate_history, finally.
Saved ==
    /\ pc = "update"
    /\ \E page \in Pages, readOk \in BOOLEAN :
          LET top_words == TopWordsOf[page]
              c2 == save_book_data(Deleted, cur_title, top_words,
                                   [ok |-> TRUE, done |-> Len(top_words),
                                    rolledBack |-> FALSE])
          IN /\ top_words # <<>>
             /\ autoinc + Len(top_words) <= MaxAppId
             /\ Cardinality(TitlesOf(rows) \cup {cur_title}) <= MaxTitles
             /\ Raise(Raised(readOk))
             /\ SetConn(c2)
             /\ partial' = StillPresent(partial, c2)
             /\ history' \in populate_history(c2, readOk)
    /\ Finally
    /\ UNCHANGED <<textVars, last, result>>

\* save_book_data raises: except RuntimeError, finally.
SaveRaises ==
    /\ pc = "update"
    /\ \E page \in Pages :
          LET top_words == TopWordsOf[page]
          IN /\ top_words # <<>>
             /\ autoinc + Len(top_words) <= MaxAppId
             /\ Cardinality(TitlesOf(rows) \cup {cur_title}) <= MaxTitles
             /\ \E sOut \in Outcomes(Len(top_words)) :
                   LET c2 == save_book_data(Deleted, cur_title, top_words, sOut)
                       new == (autoinc + 1)..(autoinc + sOut.done)
                   IN /\ ~sOut.ok
                      /\ Raise(1)
                      /\ SetConn(c2)
                      /\ partial' = StillPresent(partial \cup new, c2)
    /\ UNCHANGED history
    /\ Finally
    /\ UNCHANGED <<textVars, last, result>>

\* The fetcher is called: every way on but that of a delete_book_data that
\* raised.
FetchInvoked == FetchRaises \/ NoWords \/ Saved \/ SaveRaises

\* search_by_url after root.update(): the try block and its finally.
SearchByUrlFinish ==
    \/ DeleteRaises
    \/ FetchRaises
    \/ NoWords
    \/ Saved
    \/ SaveRaises

\* delete_selected_search, with an item of the listbox selected.  Tk may run
\* it from root.update() inside search_by_url as well.
DeleteSelectedSearch ==
    /\ \E i \in 1..Len(history), out \in Outcomes(1), readOk \in BOOLEAN :
          LET c == delete_book_data(Conn, history[i], out)
          IN /\ out.ok \/ readOk
             /\ Raise(Raised(out.ok) + Raised(readOk))
             /\ SetConn(c)
             /\ partial' = StillPresent(partial, c)
             /\ IF out.ok THEN history' \in populate_history(c, readOk)
                ELSE UNCHANGED history
    /\ UNCHANGED <<button, pc, cur_title, cur_url>>
    /\ UNCHANGED <<textVars, last, result>>

\* delete_all_records of the application, the question answered with yes.
DeleteAllRecords ==
    /\ \E out \in Outcomes(1), readOk \in BOOLEAN :
          LET c == delete_all_records(Conn, out)
          IN /\ out.ok \/ readOk
             /\ Raise(Raised(out.ok) + Raised(readOk))
             /\ SetConn(c)
             /\ partial' = StillPresent(partial, c)
             /\ IF out.ok THEN history' \in populate_history(c, readOk)
                ELSE UNCHANGED history
    /\ UNCHANGED <<button, pc, cur_title, cur_url>>
    /\ UNCHANGED <<textVars, last, result>>

\* The window is closed and main() run again: BookManager.__del__ closes the
\* connection, which drops what was not committed, and create_widgets fills
\* the listbox.
Restart ==
    /\ pc = "idle"
    /\ \E readOk \in BOOLEAN :
          LET c == rollback(Conn)
          IN /\ Raise(Raised(readOk))
             /\ SetConn(c)
             /\ partial' = StillPresent(partial, c)
             /\ history' \in populate_history(c, readOk)
    /\ button' = "normal"
    /\ UNCHANGED <<pc, cur_title, cur_url>>
    /\ UNCHANGED <<textVars, last, result>>

AppInit ==
    /\ text = <<>>
    /\ stripped = <<>>
    /\ ranked = <<>>
    /\ ran = {}
    /\ StoreInit
    /\ AppIdle

AppNext ==
    \/ SearchByUrl
    \/ SearchByUrlFinish
    \/ DeleteSelectedSearch
    \/ DeleteAllRecords
    \/ Restart

SpecApp == AppInit /\ [][AppNext]_vars

\* The same application with the other titles to type.
SearchByUrlOther == SearchByUrlOf(OtherTitleEntries)

AppOtherNext ==
    \/ SearchByUrlOther
    \/ SearchByUrlFinish
    \/ DeleteSelectedSearch
    \/ DeleteAllRecords
    \/ Restart

SpecAppOther == AppInit /\ [][AppOtherNext]_vars

----------------------------------------------------------------------------
(* Properties of the application, checked under SpecApp. *)

RowsOfTitle(table, t) == Cardinality(PlacesOf(table, t))

\* C5: every stored title has at most TOP_WORDS_LIMIT rows, in the table as
\* the connection sees it and as committed.
C5_AtMostLimitRowsPerTitle ==
    /\ \A t \in TitlesOf(rows) : RowsOfTitle(rows, t) <= TOP_WORDS_LIMIT
    /\ \A t \in TitlesOf(committed) : RowsOfTitle(committed, t) <= TOP_WORDS_LIMIT

\* C5's case: a page with more words than the limit was analysed and saved,
\* next to the rows of another title.
C5_Witness ==
    /\ pc = "idle"
    /\ \E t \in TitlesOf(committed) : RowsOfTitle(committed, t) = TOP_WORDS_LIMIT
    /\ Cardinality(TitlesOf(committed)) >= 2

----------------------------------------------------------------------------
(* The URL check of search_by_url, checked under SpecApp. *)

\* t from after the last ch of it, all of t when there is none.
AfterLast(t, ch) ==
    LET at == {i \in 1..Len(t) : t[i] = ch}
    IN IF at = {} THEN t
       ELSE SubSeq(t, (CHOOSE i \in at : \A j \in at : j <= i) + 1, Len(t))

\* t up to the first ch of it, all of t when there is none.
BeforeFirst(t, ch) ==
    LET at == {i \in 1..Len(t) : t[i] = ch}
    IN IF at = {} THEN t
       ELSE SubSeq(t, 1, (CHOOSE i \in at : \A j \in at : i <= j) - 1)

\* The host of a netloc: what is after the user information and before
\* the port, in lower case.
hostname(netloc) == lower(BeforeFirst(AfterLast(netloc, "@"), ":"))

\* The scheme is http or https and the host contains gutenberg.org.
HostAccepted(u) ==
    /\ u.scheme \in {"http", "https"}
    /\ Contains(hostname(u.netloc), GutenbergOrg)

\* C11: the fetcher is called only for a URL whose scheme is http or https
\* and whose host contains gutenberg.org; a search_by_url with any other URL,
\* the empty one too, goes on to no fetch and adds and removes no row.
C11_FetchOnlyGutenbergHost ==
    [][/\ FetchInvoked => HostAccepted(cur_url)
       /\ \A u \in UrlEntries :
             (SearchByUrlWith(TitleEntries, u) /\ ~HostAccepted(u))
                => (pc' = "idle" /\ rows' = rows /\ committed' = committed)]_vars

\* What the code does hold to: the same with the whole netloc, user
\* information and port too, in place of the host.
C11_FetchOnlyGutenbergNetloc ==
    [][/\ FetchInvoked => is_valid_gutenberg_url(cur_url)
       /\ \A u \in UrlEntries :
             (SearchByUrlWith(TitleEntries, u) /\ ~is_valid_gutenberg_url(u))
                => (pc' = "idle" /\ rows' = rows /\ committed' = committed)]_vars

----------------------------------------------------------------------------
(* deleteByTitle, checked under SpecStore. *)

\* A step that is a deleteByTitle(t) which did not raise: no other step
\* leaves this in last and nothing in result.
DeletedByTitle(t) ==
    /\ last' = [op |-> "delete", title |-> t, ok |-> TRUE]
    /\ result' = NoResult

\* C12: deleteByTitle(t) removes the rows whose title is t character for
\* character and leaves every other row as it is and where it is, those
\* whose title differs from t in letter case too; with no row of title t
\* it does not raise and leaves the table as it is, and a second call
\* changes nothing more.
C12_DeleteExactTitle ==
    [][\A t \in StoreTitles :
          DeletedByTitle(t) =>
             LET again == delete_book_data(
                             [rows |-> rows', committed |-> committed',
                              autoinc |-> autoinc',
                              committedAutoinc |-> committedAutoinc'], t, Done)
             IN /\ rows' = SelectSeq(rows, LAMBDA r : r.title # t)
                /\ t \notin TitlesOf(rows) => rows' = rows
                /\ again.rows = rows'
                /\ again.committed = rows']_vars

\* C12's case: deleteByTitle(t) did not raise, no row of title t is left,
\* and rows whose title differs from t in letter case only are.
C12_Witness ==
    /\ last.op = "delete"
    /\ last.ok
    /\ last.title \notin TitlesOf(rows)
    /\ \E t \in TitlesOf(rows) : SameButCase(t, last.title)

----------------------------------------------------------------------------
(* The button of search_by_url, checked under SpecApp. *)

\* C13: from root.update() to the end of search_by_url the button is
\* disabled, so that Tk starts no other search_by_url, and whenever none is
\* in progress, whichever way the last one ended, the button is enabled.
C13_ButtonSerializes ==
    /\ pc = "update" => button = "disabled"
    /\ pc = "idle" => button = "normal"

\* C13's case: a search_by_url is in progress, after one that saved and one
\* that raised.
C13_Witness ==
    /\ pc = "update"
    /\ button = "disabled"
    /\ rows # <<>>
    /\ failures > 0

----------------------------------------------------------------------------
(* search_by_url without a save, checked under SpecApp. *)

\* A step of search_by_url on a way that comes to no save: a return before
\* the fetch, the step up to root.update(), and the end with a fetch that
\* raised or a text without words.
WithoutSave == SearchByUrl \/ FetchRaises \/ NoWords

\* C14: a search_by_url that ends with no title, a title that exists, a
\* URL refused, a fetch that raised or a text without words leaves the rows
\* of the table as they were, though delete_book_data(title) has run before
\* the fetch.
C14_NoSaveNoChange == [][WithoutSave => rows' = rows]_vars

\* What the code does hold to: the same while no call has raised, for the
\* rows as the connection sees them and as committed.
C14_NoSaveNoChangeUnlessRaised ==
    [][(WithoutSave /\ failures = 0)
          => (rows' = rows /\ committed' = committed)]_vars

----------------------------------------------------------------------------
(* The titles in the store, checked under SpecAppOther. *)

\* C15: no two titles of the table are different and the same but for the
\* case of their letters.
C15_NoTitlesEqualIgnoringCase ==
    \A t1, t2 \in TitlesOf(rows) : SameButCase(t1, t2) => t1 = t2

\* Only word characters, whitespace and hyphens.
OnlyTitleCharacters(t) ==
    \A i \in 1..Len(t) : IsWordChar(t[i]) \/ t[i] \in Whitespace \/ t[i] = "-"

\* C16: every title of the table is not empty, not made of whitespace only,
\* has no whitespace at its start nor at its end, has only word characters,
\* whitespace and hyphens, and is at most 255 characters long.
C16_StoredTitlesClean ==
    \A t \in TitlesOf(rows) :
        /\ t # <<>>
        /\ \E i \in 1..Len(t) : t[i] \notin Whitespace
        /\ t[1] \notin Whitespace
        /\ t[Len(t)] \notin Whitespace
        /\ OnlyTitleCharacters(t)
        /\ Len(t) <= MAX_TITLE_LENGTH

\* What the code does hold to: no title of the table is empty, each has only
\* word characters, whitespace and hyphens and at most 255 characters.
C16_StoredTitlesNotEmpty ==
    \A t \in TitlesOf(rows) :
        /\ t # <<>>
        /\ OnlyTitleCharacters(t)
        /\ Len(t) <= MAX_TITLE_LENGTH

====
